---- MODULE Spec2Model ----
(***************************************************************************)
(* juliafatou: a two-lane Julia/Fatou escape-time renderer.                *)
(*                                                                         *)
(* The model follows src/src/main.rs (main: the band scheduler) and        *)
(* src/src/lib.rs (render, escape_time, get_colors_from_file, blur_image). *)
(*                                                                         *)
(* Numbers.  The program computes in f64.  The model draws its inputs from *)
(* small integers, on which every f64 operation of the escape loop (+, -,  *)
(* *, the comparison with 5.0) is exact, so the loop is modelled step for  *)
(* step.  The logarithms of make_smooth, the blend (a + b*f) / (1 + f) and *)
(* the colour gradient are kept as terms: a record that names the formula  *)
(* and its arguments.  Equal terms denote equal f64 values.                *)
(***************************************************************************)
EXTENDS Integers, Sequences, FiniteSets, TLC

(* Bounds of the model. *)
MaxWidth == 2
MaxHeight == 3
MaxThreads == 4
MaxPixel == 3
MaxPower == 3
MaxLines == 4
MaxFields == 4

(* Program constants. *)
Limit == 1024
EscapeThreshold == 5
DefaultPower == 2
DefaultIntensity == 3

VARIABLES
    args,           \* the parsed command line (main.rs: Arguments), never written after Init
    config_file,    \* the colour-config file at args.config: [exists, lines]
    pc,             \* main's position
    pixels,         \* main.rs:100, the PixelBuffer: byte index -> byte
    rows_per_band,  \* main.rs:110
    grad,           \* main.rs:116-124, the shared gradient: its 3 anchor colours, <<>> before
    bands,          \* main.rs:138-140, band index -> [start, len] (a sub-slice of pixels)
    spawned,        \* main.rs:144, number of bands the spawn loop has dispatched
    worker,         \* band index -> the thread of that band: [st, column, row, cause], its
                    \* position inside render and, once panicked, why
    writes,         \* history: byte index -> the sequence of band indices that wrote it
    outfile,        \* the output file: [saved], with the image once blur_image saved it
    et_call         \* a single call of escape_time: its arguments and its result

vars == <<args, config_file, pc, pixels, rows_per_band, grad, bands, spawned,
          worker, writes, outfile, et_call>>

Min(a, b) == IF a < b THEN a ELSE b

(***************************************************************************)
(* lib.rs: complex arithmetic (num::Complex<f64> on integer values).       *)
(* A complex number is <<re, im>>.                                         *)
(***************************************************************************)
norm_sqr(z) == z[1] * z[1] + z[2] * z[2]

cmul(a, b) == <<a[1] * b[1] - a[2] * b[2], a[1] * b[2] + a[2] * b[1]>>

cadd(a, b) == <<a[1] + b[1], a[2] + b[2]>>

(* z.powu(power): z multiplied power times, powu(0) = 1. *)
RECURSIVE powu(_, _)
powu(z, power) == IF power = 0 THEN <<1, 0>> ELSE cmul(powu(z, power - 1), z)

(* lib.rs:30-37.  pixel = <<pixel.0, pixel.1>>, offset = <<offset.0, offset.1, offset.2>>. *)
calculate_offset(pixel, scale, offset) ==
    LET cx == pixel[2] * scale[2] - (offset[3] + offset[1])
        cy == pixel[1] * scale[1] - (offset[3] + offset[2])
    IN  <<cx, cy>>

(* lib.rs:41-45.  The term i + 2 - ln(ln(re^2 + im^2)) / LN_2. *)
make_smooth(c, i) == [fn |-> "smooth", i |-> i, n |-> c[1] * c[1] + c[2] * c[2]]

(* Option<f64>. *)
None == [some |-> FALSE]
Some(v) == [some |-> TRUE, val |-> v]

(***************************************************************************)
(* lib.rs:49-65, escape_time.  A loop state is [z, i, ret, tests]: ret is   *)
(* the value returned from inside the loop (None while the loop runs) and  *)
(* tests counts the evaluations of the escape condition.                   *)
(***************************************************************************)
(* Mutant: the map is applied before the escape condition is tested. *)
escape_iter_map_first(s, c, limit, power) ==
    IF s.ret.some \/ s.i >= limit THEN s
    ELSE LET z == cadd(powu(s.z, power), c)
         IN  IF norm_sqr(z) > EscapeThreshold
             THEN [z |-> z, i |-> s.i, ret |-> Some(make_smooth(z, s.i)),
                   tests |-> s.tests + 1]
             ELSE [z |-> z, i |-> s.i + 1, ret |-> None, tests |-> s.tests + 1]

(* One pass through the loop body, lines 53-62. *)
escape_iter(s, c, limit, power) ==
    IF s.ret.some \/ s.i >= limit THEN s
    ELSE IF norm_sqr(s.z) > EscapeThreshold
         THEN [z |-> s.z, i |-> s.i, ret |-> Some(make_smooth(s.z, s.i)),
               tests |-> s.tests + 1]
         ELSE [z |-> cadd(powu(s.z, power), c), i |-> s.i + 1, ret |-> None,
               tests |-> s.tests + 1]

(* n passes through the loop body, one after the other.  The passes are     *)
(* evaluated in two halves so that the evaluation depth is logarithmic.    *)
RECURSIVE escape_loop(_, _, _, _, _)
escape_loop(s, n, c, limit, power) ==
    IF n = 0 THEN s
    ELSE IF n = 1 THEN escape_iter(s, c, limit, power)
    ELSE LET half == escape_loop(s, n \div 2, c, limit, power)
         IN  IF half.ret.some THEN half
             ELSE escape_loop(half, n - (n \div 2), c, limit, power)

(* The whole function: the final loop state; its ret is the function's result. *)
escape_run(pixel, scale, offset, c, limit, power) ==
    escape_loop([z |-> calculate_offset(pixel, scale, offset), i |-> 0,
                 ret |-> None, tests |-> 0],
                limit, c, limit, power)

escape_time(pixel, scale, offset, c, limit, power) ==
    escape_run(pixel, scale, offset, c, limit, power).ret

(* lib.rs:92-96. *)
get_diverged(c, diverge) == <<c, <<c[1] + diverge, c[2] - diverge>>>>

(* Option::unwrap_or(0.0), lib.rs:124-125. *)
Zero == [fn |-> "0.0"]
unwrap_or_zero(opt) == IF opt.some THEN opt.val ELSE Zero

(* lib.rs:127, the term (a + b * factor) / (1.0 + factor); den is 1.0 + factor. *)
blend(a, b, factor) == [fn |-> "blend", a |-> a, b |-> b, factor |-> factor,
                        den |-> 1 + factor]

(* lib.rs:129-131. *)
invert(x, inverse) == IF inverse THEN [fn |-> "255-", x |-> x] ELSE x

(* lib.rs:133, grad.reflect_at(x * intensity).to_rgba8(): channel -> byte term. *)
reflect_at_rgba8(gradient, x, intensity) ==
    [rgb \in 0..3 |-> [fn |-> "rgba8", ch |-> rgb, grad |-> gradient, x |-> x,
                       intensity |-> intensity]]

(* Mutant: the components of upper_left taken the other way round. *)
render_point_swapped_upper_left(row, column, upper_left) ==
    <<row + upper_left[1], column + upper_left[2]>>

(* lib.rs:118-120: the point render evaluates for band-local (row, column). *)
render_point(row, column, upper_left) == <<row + upper_left[2], column + upper_left[1]>>

(* lib.rs:122-133: the colour render computes for one point. *)
render_newpix(point, scale, offset, complex, diverge, gradient, intensity, inverse, power, factor) ==
    LET diverged == get_diverged(complex, diverge)
        a == unwrap_or_zero(escape_time(point, scale, offset, diverged[1], Limit, power))
        b == unwrap_or_zero(escape_time(point, scale, offset, diverged[2], Limit, power))
        x == invert(blend(a, b, factor), inverse)
    IN  reflect_at_rgba8(gradient, x, intensity)

(* Mutant: the row stride in pixels instead of bytes. *)
pixel_index_row_stride_in_pixels(row, column, rgb, bounds) ==
    row * bounds[1] + column * 3 + rgb

(* lib.rs:136, the index of a byte inside the band's slice. *)
pixel_index(row, column, rgb, bounds) == row * (bounds[1] * 3) + column * 3 + rgb

(***************************************************************************)
(* lib.rs:233-266, get_colors_from_file.  A file is "absent" or the         *)
(* sequence of its lines; a line is a sequence of characters.  The model   *)
(* holds it as [exists, lines].                                            *)
(***************************************************************************)
Comma == ","

(* str::split(','), lib.rs:254: the fields between the commas; a line       *)
(* without a comma, the empty line included, is one field.                 *)
RECURSIVE split(_)
split(line) ==
    IF \A k \in 1..Len(line) : line[k] # Comma THEN <<line>>
    ELSE LET k == CHOOSE j \in 1..Len(line) :
                      line[j] = Comma /\ \A m \in 1..(j - 1) : line[m] # Comma
         IN  <<SubSeq(line, 1, k - 1)>> \o split(SubSeq(line, k + 1, Len(line)))

Digits == <<"0", "1", "2", "3", "4", "5", "6", "7", "8", "9">>

IsDigit(ch) == \E d \in 1..10 : Digits[d] = ch

DigitValue(ch) == (CHOOSE d \in 1..10 : Digits[d] = ch) - 1

U8Max == 255

(* str::parse::<u8>(), lib.rs:257-259: an optional '+', then one or more    *)
(* decimal digits, the value at most 255; anything else is an Err.         *)
RECURSIVE parse_digits(_, _)
parse_digits(s, acc) ==
    IF s = <<>> THEN [ok |-> TRUE, val |-> acc]
    ELSE IF ~IsDigit(Head(s)) THEN [ok |-> FALSE]
    ELSE LET v == acc * 10 + DigitValue(Head(s))
         IN  IF v > U8Max THEN [ok |-> FALSE] ELSE parse_digits(Tail(s), v)

parse_u8(s) ==
    IF s = <<>> THEN [ok |-> FALSE]
    ELSE IF Head(s) = "+" THEN
         (IF Len(s) = 1 THEN [ok |-> FALSE] ELSE parse_digits(Tail(s), 0))
    ELSE parse_digits(s, 0)

(* Mutant: a missing field is not replaced by "0". *)
next_without_default(fields, k) == IF k <= Len(fields) THEN fields[k] ELSE <<>>

(* iterator.next().unwrap_or("0"), lib.rs:257-259: the k-th field, "0" when *)
(* the line has fewer than k fields.                                       *)
next_or_zero(fields, k) == IF k <= Len(fields) THEN fields[k] ELSE <<"0">>

(* lib.rs:254-261: one data line to a colour <<r, g, b>>, or an Err. *)
parse_color_line(line) ==
    LET fields == split(line)
        r == parse_u8(next_or_zero(fields, 1))
        g == parse_u8(next_or_zero(fields, 2))
        b == parse_u8(next_or_zero(fields, 3))
    IN  IF r.ok /\ g.ok /\ b.ok THEN [ok |-> TRUE, val |-> <<r.val, g.val, b.val>>]
        ELSE [ok |-> FALSE]

(* lines().skip(1), lib.rs:248. *)
skip_header(lines) == IF lines = <<>> THEN <<>> ELSE Tail(lines)

(* lib.rs:233-266: "ok" with the three colours, "err" (an Err returned by   *)
(* ?) or "panic" (the assertion of line 250).                              *)
get_colors_from_file(file) ==
    IF ~file.exists THEN [res |-> "err"]
    ELSE LET strings == skip_header(file.lines)
         IN  IF Len(strings) # 3 THEN [res |-> "panic"]
             ELSE LET parsed == [k \in 1..3 |-> parse_color_line(strings[k])]
                  IN  IF \A k \in 1..3 : parsed[k].ok
                      THEN [res |-> "ok", val |-> [k \in 1..3 |-> parsed[k].val]]
                      ELSE [res |-> "err"]

(* lib.rs:172-229, return_colors: the styles the model uses.  The expect of *)
(* line 225 turns an Err into a panic.                                     *)
return_colors(style, file) ==
    IF style = "Greyscale"
    THEN [res |-> "ok", val |-> <<<<255, 255, 255>>, <<127, 127, 127>>, <<0, 0, 0>>>>]
    ELSE LET r == get_colors_from_file(file)
         IN  IF r.res = "ok" THEN r ELSE [res |-> "panic"]

(***************************************************************************)
(* main.rs:75-184, main.                                                   *)
(***************************************************************************)

(* main.rs:87: scalex = args.scale / dimensions.1. *)
scalex(a) == a.scale \div a.height

(* main.rs:96-97: offset = ((po.0 - off) + off * ratio, po.1, off), where   *)
(* off = args.scale / 2 and ratio = dimensions.0 / dimensions.1.           *)
view_offset(a) ==
    LET off == a.scale \div 2
    IN  <<(a.off[1] - off) + (off * a.width) \div a.height, a.off[2], off>>

(* Mutant: the rows per band without the + 1. *)
RowsPerBand_floor_only(height, threads) == height \div threads

(* main.rs:110. *)
RowsPerBand(height, threads) == height \div threads + 1

(* slice::chunks_mut(chunk_size), main.rs:140: band index -> [start, len]. *)
chunks_mut(len, chunk_size) ==
    LET n == (len + chunk_size - 1) \div chunk_size
    IN  [k \in 0..(n - 1) |->
            [start |-> k * chunk_size, len |-> Min(chunk_size, len - k * chunk_size)]]

(* Mutant: the band's top from the quotient height / threads alone. *)
band_top_without_remainder_row(rpb, i) == (rpb - 1) * i

(* main.rs:146. *)
band_top(rpb, i) == rpb * i

(* Mutant: the band's height without the division by the 3 channels. *)
band_height_in_bytes_per_column(band_len, width) == band_len \div width

(* main.rs:148. *)
band_height(band_len, width) == (band_len \div width) \div 3

(* main.rs:150-152. *)
band_upper_left(i) == <<0, band_top(rows_per_band, i)>>

band_bounds(i) == <<args.width, band_height(bands[i].len, args.width)>>

NumBands == Cardinality(DOMAIN bands)

ZeroByte == [fn |-> "0u8"]

Terminated(w) == w.st \in {"done", "panicked"}

(* main.rs:100-110: the buffer is allocated, the thread count settled      *)
(* (a count of 0 divides by zero at line 110).                             *)
Prepare ==
    /\ pc = "start"
    /\ pixels' = [b \in 0..(args.width * args.height * 3 - 1) |-> ZeroByte]
    /\ writes' = [b \in 0..(args.width * args.height * 3 - 1) |-> <<>>]
    /\ IF args.threads = 0
       THEN pc' = "aborted" /\ UNCHANGED rows_per_band
       ELSE pc' = "colors" /\ rows_per_band' = RowsPerBand(args.height, args.threads)
    /\ UNCHANGED <<args, config_file, grad, bands, spawned, worker, outfile, et_call>>

(* main.rs:113-124: the anchor colours and the gradient. *)
ReturnColors ==
    /\ pc = "colors"
    /\ LET r == return_colors(args.cm, config_file)
       IN  IF r.res = "ok" THEN pc' = "bands" /\ grad' = r.val
           ELSE pc' = "aborted" /\ UNCHANGED grad
    /\ UNCHANGED <<args, config_file, pixels, rows_per_band, bands, spawned, worker,
                   writes, outfile, et_call>>

(* main.rs:138-140: the bands (chunks_mut panics on a chunk size of 0). *)
MakeBands ==
    /\ pc = "bands"
    /\ LET chunk_size == rows_per_band * args.width * 3
       IN  IF chunk_size = 0
           THEN pc' = "aborted" /\ UNCHANGED <<bands, worker>>
           ELSE /\ pc' = "scope"
                /\ bands' = chunks_mut(args.width * args.height * 3, chunk_size)
                /\ worker' = [i \in DOMAIN bands' |->
                                 [st |-> "unspawned", column |-> 0, row |-> 0,
                                  cause |-> "none"]]
    /\ UNCHANGED <<args, config_file, pixels, rows_per_band, grad, spawned, writes,
                   outfile, et_call>>

(* main.rs:144-169: the spawn loop dispatches the next band. *)
Spawn ==
    /\ pc = "scope"
    /\ spawned < NumBands
    /\ worker' = [worker EXCEPT ![spawned].st = "spawned"]
    /\ spawned' = spawned + 1
    /\ UNCHANGED <<args, config_file, pc, pixels, rows_per_band, grad, bands, writes,
                   outfile, et_call>>

(* lib.rs:114: the assertion at the start of render. *)
render_assert(len, bounds) == len = bounds[1] * bounds[2] * 3

(* lib.rs:114-117: render is entered; with nothing to iterate it returns. *)
RenderBegin(i) ==
    /\ worker[i].st = "spawned"
    /\ LET bounds == band_bounds(i)
       IN  worker' = [worker EXCEPT ![i] =
                         IF ~render_assert(bands[i].len, bounds)
                         THEN [@ EXCEPT !.st = "panicked", !.cause = "assert"]
                         ELSE IF bounds[1] = 0 \/ bounds[2] = 0 THEN [@ EXCEPT !.st = "done"]
                         ELSE [@ EXCEPT !.st = "running"]]
    /\ UNCHANGED <<args, config_file, pc, pixels, rows_per_band, grad, bands, spawned,
                   writes, outfile, et_call>>

(* lib.rs:135-137: the loop over rgb stores newpix[rgb] at its index of the *)
(* band's slice, from rgb on; an index outside the slice panics (ok is     *)
(* FALSE) and leaves the later bytes unwritten.  m is [pixels, writes, ok]. *)
RECURSIVE store_rgb(_, _, _, _, _, _, _)
store_rgb(m, i, row, column, rgb, bounds, newpix) ==
    IF rgb = 3 THEN m
    ELSE LET idx == pixel_index(row, column, rgb, bounds)
         IN  IF idx >= bands[i].len THEN [m EXCEPT !.ok = FALSE]
             ELSE store_rgb([pixels |-> [m.pixels EXCEPT ![bands[i].start + idx] = newpix[rgb]],
                             writes |-> [m.writes EXCEPT ![bands[i].start + idx] = Append(@, i)],
                             ok |-> TRUE],
                            i, row, column, rgb + 1, bounds, newpix)

(* lib.rs:116-117: the loop counters after the pixel at (row, column): the  *)
(* rows of a column first, then the next column.                           *)
next_position(w, bounds) ==
    IF w.row + 1 < bounds[2] THEN [w EXCEPT !.row = w.row + 1]
    ELSE IF w.column + 1 < bounds[1] THEN [w EXCEPT !.row = 0, !.column = w.column + 1]
    ELSE [w EXCEPT !.st = "done"]

(* lib.rs:116-138: one pass of the inner loop: a pixel is computed and its  *)
(* three bytes written into the band's slice, and the loop counters        *)
(* advance.                                                                *)
RenderPixel(i) ==
    /\ worker[i].st = "running"
    /\ LET w == worker[i]
           bounds == band_bounds(i)
           point == render_point(w.row, w.column, band_upper_left(i))
       IN  \E newpix \in {render_newpix(point, <<scalex(args), scalex(args)>>,
                             view_offset(args), args.complex, args.gap, grad,
                             args.intensity, args.inverse, args.power, args.factor)} :
           \E m \in {store_rgb([pixels |-> pixels, writes |-> writes, ok |-> TRUE],
                               i, w.row, w.column, 0, bounds, newpix)} :
               /\ pixels' = m.pixels
               /\ writes' = m.writes
               /\ worker' = [worker EXCEPT ![i] =
                                IF m.ok THEN next_position(w, bounds)
                                ELSE [w EXCEPT !.st = "panicked", !.cause = "index"]]
    /\ UNCHANGED <<args, config_file, pc, rows_per_band, grad, bands, spawned, outfile,
                   et_call>>

(* A fault inside a band's computation: the thread panics where it stands. *)
WorkerPanic(i) ==
    /\ worker[i].st \in {"spawned", "running"}
    /\ worker' = [worker EXCEPT ![i].st = "panicked", ![i].cause = "fault"]
    /\ UNCHANGED <<args, config_file, pc, pixels, rows_per_band, grad, bands, spawned,
                   writes, outfile, et_call>>

(* Mutant: the scope ends with the spawn loop, without joining the threads. *)
scope_joined_without_join(ws, n_spawned, n_bands) == n_spawned = n_bands

(* crossbeam::scope, main.rs:142-171: the scope ends when the closure has   *)
(* returned and every spawned thread has terminated.                       *)
scope_joined(ws, n_spawned, n_bands) ==
    n_spawned = n_bands /\ \A i \in DOMAIN ws : Terminated(ws[i])

(* Mutant: the scope's result is not looked at. *)
scope_result_ignored(ws) == "Ok"

(* The scope's result: an Err when a thread panicked. *)
scope_result(ws) == IF \E i \in DOMAIN ws : ws[i].st = "panicked" THEN "Err" ELSE "Ok"

(* main.rs:171: .unwrap() of the scope's result. *)
ScopeJoin ==
    /\ pc = "scope"
    /\ scope_joined(worker, spawned, NumBands)
    /\ pc' = IF scope_result(worker) = "Ok" THEN "blur" ELSE "aborted"
    /\ UNCHANGED <<args, config_file, pixels, rows_per_band, grad, bands, spawned,
                   worker, writes, outfile, et_call>>

(* lib.rs:144-154 and main.rs:175: the buffer is blurred and saved; an I/O *)
(* or encoding error is fatal (expect).                                    *)
blur_image(buf, bounds) ==
    [saved |-> TRUE, image |-> [fn |-> "blur", bounds |-> bounds, pixels |-> buf]]

BlurImage ==
    /\ pc = "blur"
    /\ \E saved \in BOOLEAN :
          IF saved
          THEN pc' = "done" /\ outfile' = blur_image(pixels, <<args.width, args.height>>)
          ELSE pc' = "aborted" /\ UNCHANGED outfile
    /\ UNCHANGED <<args, config_file, pixels, rows_per_band, grad, bands, spawned,
                   worker, writes, et_call>>

(***************************************************************************)
(* One call of escape_time, for the claims about the function itself.      *)
(***************************************************************************)
EscapeTimeCall ==
    /\ pc = "escape"
    /\ ~et_call.returned
    /\ LET s == escape_run(et_call.pixel, et_call.scale, et_call.offset, et_call.c,
                           Limit, et_call.power)
       IN  et_call' = [et_call EXCEPT !.returned = TRUE, !.ret = s.ret,
                          !.tests = s.tests, !.i = s.i,
                          !.intensity = unwrap_or_zero(s.ret)]
    /\ UNCHANGED <<args, config_file, pc, pixels, rows_per_band, grad, bands, spawned,
                   worker, writes, outfile>>

NoCall == [returned |-> FALSE]

(***************************************************************************)
(* Initial states.                                                         *)
(***************************************************************************)
Factors == {-1, 1}

NoFile == [exists |-> FALSE, lines |-> <<>>]

(* The command line: the defaults of main.rs:13-71 where they are integers  *)
(* (power 2, intensity 3), and a view (scale, complex, diverge) on which   *)
(* the arithmetic of main.rs:87-97 is exact.                               *)
Arguments(width, height, threads, cm, factor, inverse) ==
    [width |-> width, height |-> height, threads |-> threads, cm |-> cm,
     factor |-> factor, inverse |-> inverse, power |-> DefaultPower,
     intensity |-> DefaultIntensity, scale |-> 4 * height, off |-> <<0, 0>>,
     complex |-> <<0, 0>>, gap |-> 1]

InitMain ==
    /\ pc = "start"
    /\ pixels = <<>>
    /\ writes = <<>>
    /\ rows_per_band = 0
    /\ grad = <<>>
    /\ bands = <<>>
    /\ spawned = 0
    /\ worker = <<>>
    /\ outfile = [saved |-> FALSE]
    /\ et_call = NoCall

Init ==
    /\ InitMain
    /\ config_file = NoFile
    /\ \E width \in 0..MaxWidth, height \in 0..MaxHeight, threads \in 0..MaxThreads,
          factor \in Factors, inverse \in BOOLEAN :
          args = Arguments(width, height, threads, "Greyscale", factor, inverse)

(***************************************************************************)
(* Colour-config files.  A data line is up to MaxFields fields joined by   *)
(* commas; a file is a header and up to MaxLines data lines, of which one  *)
(* ranges over all such lines and the others are the line "255,255,+7".    *)
(***************************************************************************)
Tokens == {<<"2", "5", "5">>, <<"2", "5", "6">>, <<"+", "7">>, <<"x">>, <<>>}

RECURSIVE join(_)
join(fields) ==
    IF Len(fields) = 1 THEN fields[1]
    ELSE fields[1] \o <<Comma>> \o join(Tail(fields))

Lines == UNION {{join(f) : f \in [1..n -> Tokens]} : n \in 1..MaxFields}

PlainLine == join(<<<<"2", "5", "5">>, <<"2", "5", "5">>, <<"+", "7">>>>)

Header == <<"R", Comma, "G", Comma, "B">>

DataLines ==
    {<<>>} \cup UNION {{[[j \in 1..n |-> PlainLine] EXCEPT ![k] = line] :
                           k \in 1..n, line \in Lines} : n \in 1..MaxLines}

ConfigFiles ==
    {NoFile, [exists |-> TRUE, lines |-> <<>>]}
        \cup {[exists |-> TRUE, lines |-> <<Header>> \o d] : d \in DataLines}

InitColors ==
    /\ InitMain
    /\ config_file \in ConfigFiles
    /\ args = Arguments(1, 1, 1, "Config", 1, FALSE)

(***************************************************************************)
(* Calls of escape_time: pixels of a (MaxPixel + 1)-square, the points      *)
(* re, im in -2 .. MaxPixel - 2, constants around 0 and powers 0..MaxPower. *)
(***************************************************************************)
Constants == {<<re, im>> : re \in {-1, 0, 1}, im \in {-1, 0, 1}}

InitEscape ==
    /\ pc = "escape"
    /\ config_file = NoFile
    /\ args = Arguments(0, 0, 0, "Greyscale", 1, FALSE)
    /\ pixels = <<>>
    /\ writes = <<>>
    /\ rows_per_band = 0
    /\ grad = <<>>
    /\ bands = <<>>
    /\ spawned = 0
    /\ worker = <<>>
    /\ outfile = [saved |-> FALSE]
    /\ \E row \in 0..MaxPixel, column \in 0..MaxPixel, c \in Constants,
          power \in 0..MaxPower :
          et_call = [returned |-> FALSE, pixel |-> <<row, column>>, scale |-> <<1, 1>>,
                     offset |-> <<1, 1, 1>>, c |-> c, power |-> power, ret |-> None,
                     tests |-> 0, i |-> 0, intensity |-> Zero]

Next ==
    \/ Prepare
    \/ ReturnColors
    \/ MakeBands
    \/ Spawn
    \/ \E i \in DOMAIN worker : RenderBegin(i)
    \/ \E i \in DOMAIN worker : RenderPixel(i)
    \/ \E i \in DOMAIN worker : WorkerPanic(i)
    \/ ScopeJoin
    \/ BlurImage

Spec == Init /\ [][Next]_vars

SpecColors == InitColors /\ [][Next]_vars

SpecEscape == InitEscape /\ [][EscapeTimeCall]_vars

(***************************************************************************)
(* Properties.                                                             *)
(***************************************************************************)
Width == args.width
Height == args.height
Threads == args.threads

BandsMade == pc \in {"scope", "blur", "done"}

PostProcessing == pc \in {"blur", "done"}

LastBand == NumBands - 1

(* The global rows of band i, from the top and the height main gives it. *)
BandRows(i) ==
    LET top == band_top(rows_per_band, i)
    IN  top .. (top + band_height(bands[i].len, Width) - 1)

BandBytes(i) == bands[i].start .. (bands[i].start + bands[i].len - 1)

CeilDiv(a, b) == (a + b - 1) \div b

(* C1: for width >= 1, height >= 1 and 1 <= threads <= height, the row      *)
(* ranges of the bands (band i from row rows_per_band * i, with height     *)
(* band.len() / width / 3) are pairwise disjoint, their union is exactly   *)
(* 0 .. height - 1, and each band's slice holds exactly the bytes of its   *)
(* rows.                                                                   *)
C1_BandsPartitionRows ==
    (BandsMade /\ Width >= 1 /\ Height >= 1 /\ Threads >= 1 /\ Threads <= Height) =>
        /\ rows_per_band = Height \div Threads + 1
        /\ UNION {BandRows(i) : i \in DOMAIN bands} = 0..(Height - 1)
        /\ \A i, j \in DOMAIN bands : i # j => BandRows(i) \cap BandRows(j) = {}
        /\ \A i \in DOMAIN bands :
              /\ BandRows(i) # {}
              /\ BandBytes(i) = {b \in DOMAIN pixels : b \div (Width * 3) \in BandRows(i)}

C1_Witness ==
    /\ BandsMade /\ Width >= 1 /\ Threads >= 2 /\ Threads <= Height
    /\ NumBands >= 2
    /\ Cardinality(BandRows(LastBand)) < rows_per_band

(* C10: for width >= 1, height >= 1 and threads >= 1 the bands number       *)
(* ceil(height / (height / threads + 1)), at most threads; one worker is   *)
(* spawned per band; no band is empty, every band but the last has         *)
(* height / threads + 1 rows and the last has from 1 to that many.         *)
C10_BandCount ==
    (BandsMade /\ Width >= 1 /\ Height >= 1) =>
        LET rpb == Height \div Threads + 1
            n == NumBands
        IN  /\ DOMAIN bands = 0..(n - 1)
            /\ DOMAIN worker = DOMAIN bands
            /\ n = CeilDiv(Height, rpb)
            /\ n >= 1 /\ n <= Threads
            /\ spawned <= n
            /\ {i \in DOMAIN worker : worker[i].st # "unspawned"} = 0..(spawned - 1)
            /\ PostProcessing => spawned = n
            /\ \A i \in DOMAIN bands :
                  /\ bands[i].len > 0
                  /\ i < n - 1 => bands[i].len = rpb * Width * 3
                  /\ i = n - 1 => \E rows \in 1..rpb : bands[i].len = rows * Width * 3
                  /\ band_bounds(i) = <<Width, bands[i].len \div (Width * 3)>>

C10_Witness ==
    /\ pc = "blur" /\ Width >= 1 /\ Height >= 1
    /\ Threads <= Height
    /\ NumBands < Threads
    /\ spawned = NumBands

(* C6: for width >= 1, height >= 0 and threads >= 1 the buffer has          *)
(* width * height * 3 bytes from its allocation on, every band is a whole  *)
(* number of rows with band.len() = band_bounds.0 * band_bounds.1 * 3, and *)
(* no worker fails the assertion at the start of render.                   *)
C6_RenderAssertHolds ==
    /\ pc # "start" => DOMAIN pixels = 0..(Width * Height * 3 - 1)
    /\ \A i \in DOMAIN bands :
          /\ bands[i].len % (Width * 3) = 0
          /\ bands[i].len = band_bounds(i)[1] * band_bounds(i)[2] * 3
          /\ band_bounds(i)[1] = Width
    /\ \A i \in DOMAIN worker : worker[i].cause # "assert"

C6_Witness ==
    /\ NumBands >= 2
    /\ worker[LastBand].st = "running"
    /\ bands[LastBand].len < bands[0].len

(* C2: in every interleaving each byte of the buffer is written only by the *)
(* worker of the band it lies in and at most once, a byte not yet written  *)
(* is still zero, render's index never leaves the band's slice, and a      *)
(* worker that has returned has written every byte of its band exactly     *)
(* once; when post-processing starts every byte was written exactly once.  *)
C2_ExclusiveWrites ==
    /\ \A b \in DOMAIN writes :
          /\ Len(writes[b]) <= 1
          /\ \A k \in 1..Len(writes[b]) : b \in BandBytes(writes[b][k])
          /\ (writes[b] = <<>>) <=> (pixels[b] = ZeroByte)
    /\ \A i \in DOMAIN worker :
          /\ worker[i].cause # "index"
          /\ worker[i].st = "done" => \A b \in BandBytes(i) : writes[b] = <<i>>
          /\ LET bounds == band_bounds(i)
             IN  {pixel_index(row, column, rgb, bounds) :
                      row \in 0..(bounds[2] - 1), column \in 0..(bounds[1] - 1),
                      rgb \in 0..2}
                 = 0..(bands[i].len - 1)
    /\ PostProcessing => \A b \in DOMAIN writes : Len(writes[b]) = 1

C2_Witness ==
    /\ Width >= 2
    /\ \E i, j \in DOMAIN worker :
          /\ i # j
          /\ worker[i].st = "running" /\ worker[j].st = "running"
          /\ \E b \in BandBytes(i) : writes[b] = <<i>>
          /\ \E b \in BandBytes(j) : writes[b] = <<j>>
          /\ \E b \in BandBytes(j) : writes[b] = <<>>

(* The blend of a written byte: the argument of the gradient, without the  *)
(* inversion of lib.rs:130.                                                *)
BlendOf(byte) == IF byte.x.fn = "255-" THEN byte.x.x ELSE byte.x

(* The buffer in which the pixel at global (row, column) is the colour of   *)
(* that point: what one band that spans the image (a render with 1 thread) *)
(* writes.  It does not mention the thread count or the bands.             *)
ExpectedBuffer ==
    [b \in 0..(Width * Height * 3 - 1) |->
        render_newpix(<<b \div (Width * 3), (b % (Width * 3)) \div 3>>,
                      <<scalex(args), scalex(args)>>, view_offset(args), args.complex,
                      args.gap, grad, args.intensity, args.inverse, args.power,
                      args.factor)[b % 3]]

(* C3: whatever the thread count and the interleaving, the buffer handed to *)
(* post-processing holds at each global (row, column) the colour of that   *)
(* point, so renders with 1 and with N threads are byte-identical, and so  *)
(* is the image saved.                                                     *)
C3_SameBufferForAnyThreads ==
    PostProcessing =>
        /\ pixels = ExpectedBuffer
        /\ outfile.saved => outfile = blur_image(ExpectedBuffer, <<Width, Height>>)

C3_Witness ==
    /\ pc = "done" /\ outfile.saved
    /\ Threads >= 2 /\ NumBands >= 2
    /\ \E b \in BandBytes(LastBand) : BlendOf(pixels[b]).a = Zero
    /\ \E b \in BandBytes(0) : BlendOf(pixels[b]).a # Zero

(* C4: the scheduler leaves the scope only when every spawned worker has    *)
(* terminated, so post-processing starts after all workers, and from then  *)
(* on no worker moves and the buffer is not written.                       *)
C4_JoinBeforeBlur ==
    /\ [](pc # "scope" => \A i \in DOMAIN worker : Terminated(worker[i]))
    /\ [](PostProcessing => \A i \in DOMAIN worker : worker[i].st = "done")
    /\ [][PostProcessing => (pixels' = pixels /\ worker' = worker)]_vars

C4_Witness ==
    /\ pc = "blur"
    /\ NumBands >= 2
    /\ \A i \in DOMAIN worker : worker[i].st = "done"

(* C5: once a worker has panicked, the scope's result is an error and main  *)
(* stops on it: post-processing is never reached and no image is saved,    *)
(* whatever the other workers did.                                         *)
C5_PanicAbortsRender ==
    /\ (\E i \in DOMAIN worker : worker[i].st = "panicked") =>
          (pc \in {"scope", "aborted"} /\ ~outfile.saved)
    /\ pc = "aborted" => ~outfile.saved

C5_Witness ==
    /\ pc = "aborted"
    /\ ~outfile.saved
    /\ \E i, j \in DOMAIN worker :
          /\ worker[i].st = "panicked"
          /\ worker[j].st = "done"
          /\ \E b \in BandBytes(i) : writes[b] # <<>>

(* C7: no pixel is ever computed from the blend formula with 1 + f = 0.     *)
C7_BlendNeverSingular ==
    \A b \in DOMAIN pixels : pixels[b] # ZeroByte => BlendOf(pixels[b]).den # 0

(***************************************************************************)
(* The colour-config file (SpecColors).                                    *)
(***************************************************************************)
DataLinesOf(file) == IF file.lines = <<>> THEN <<>> ELSE Tail(file.lines)

CommaPositions(line) == {k \in 1..Len(line) : line[k] = ","}

FieldCount(line) == Cardinality(CommaPositions(line)) + 1

(* The j-th comma of the line; 0 and Len + 1 stand for its two ends. *)
NthComma(line, j) ==
    IF j = 0 THEN 0
    ELSE IF j > Cardinality(CommaPositions(line)) THEN Len(line) + 1
    ELSE CHOOSE k \in CommaPositions(line) :
             Cardinality({m \in CommaPositions(line) : m < k}) = j - 1

(* The j-th comma-separated field of the line, 1 <= j <= FieldCount. *)
Field(line, j) == SubSeq(line, NthComma(line, j - 1) + 1, NthComma(line, j) - 1)

RECURSIVE DecimalValue(_)
DecimalValue(text) ==
    IF text = <<>> THEN 0
    ELSE 10 * DecimalValue(SubSeq(text, 1, Len(text) - 1))
             + DigitValue(text[Len(text)])

Unsigned(text) == IF text # <<>> /\ text[1] = "+" THEN Tail(text) ELSE text

(* An integer in 0..255: one or more decimal digits, a '+' allowed before. *)
IsByteText(text) ==
    /\ Unsigned(text) # <<>>
    /\ \A k \in 1..Len(Unsigned(text)) : IsDigit(Unsigned(text)[k])
    /\ DecimalValue(Unsigned(text)) <= 255

(* A line of the form R,G,B: exactly three fields, each an integer 0..255. *)
IsRgbLine(line) ==
    FieldCount(line) = 3 /\ \A j \in 1..3 : IsByteText(Field(line, j))

(* A line whose first three fields, as far as present, are integers 0..255. *)
IsLenientRgbLine(line) ==
    \A j \in 1..3 : j <= FieldCount(line) => IsByteText(Field(line, j))

LenientColor(line) ==
    [j \in 1..3 |-> IF j <= FieldCount(line)
                    THEN DecimalValue(Unsigned(Field(line, j))) ELSE 0]

HasThreeDataLines(file) == file.exists /\ Len(DataLinesOf(file)) = 3

WellFormed(file) ==
    HasThreeDataLines(file) /\ \A k \in 1..3 : IsRgbLine(DataLinesOf(file)[k])

Acceptable(file) ==
    HasThreeDataLines(file) /\ \A k \in 1..3 : IsLenientRgbLine(DataLinesOf(file)[k])

ColorsRead == pc \notin {"start", "colors"}

NothingRendered ==
    /\ pc = "aborted"
    /\ grad = <<>>
    /\ spawned = 0
    /\ DOMAIN worker = {}
    /\ \A b \in DOMAIN pixels : pixels[b] = ZeroByte
    /\ ~outfile.saved

(* C8, as claimed: the file is accepted only when it has exactly 3 data     *)
(* lines of the form R,G,B with three integers in 0..255; every other file *)
(* is fatal before any worker is dispatched.                               *)
C8_OnlyRgbLinesAccepted ==
    ColorsRead =>
        /\ grad # <<>> => WellFormed(config_file)
        /\ ~WellFormed(config_file) => NothingRendered

(* C8, amended: the file is accepted exactly when it can be read and has    *)
(* exactly 3 data lines after the first line, in each of which the first   *)
(* three comma-separated fields, as far as present, are integers in 0..255;*)
(* a missing second or third field counts as 0 and fields after the third  *)
(* are ignored.  Every other file is fatal before any worker is            *)
(* dispatched: nothing is rendered and no image is written.                *)
C8_LenientLinesAccepted ==
    ColorsRead =>
        /\ grad # <<>> <=> Acceptable(config_file)
        /\ Acceptable(config_file) =>
              grad = [k \in 1..3 |-> LenientColor(DataLinesOf(config_file)[k])]
        /\ ~Acceptable(config_file) => NothingRendered

C8_Witness ==
    /\ pc = "done" /\ outfile.saved
    /\ \E k \in 1..3 : FieldCount(DataLinesOf(config_file)[k]) = 1
    /\ \E k \in 1..3 : grad[k] = <<255, 0, 0>>

(***************************************************************************)
(* escape_time (SpecEscape).                                               *)
(***************************************************************************)
Escaped(z) == z[1] * z[1] + z[2] * z[2] > 5

(* The orbit z_0, z_1, ... of the call, as far as its first escaping point  *)
(* and no further than n more points: z_{k+1} = z_k^power + c.             *)
RECURSIVE Orbit(_, _, _, _)
Orbit(zs, n, c, power) ==
    IF n = 0 \/ Escaped(zs[Len(zs)]) THEN zs
    ELSE IF n = 1 THEN Append(zs, cadd(powu(zs[Len(zs)], power), c))
    ELSE LET half == Orbit(zs, n \div 2, c, power)
         IN  IF Escaped(half[Len(half)]) THEN half
             ELSE Orbit(half, n - (n \div 2), c, power)

StartPoint(call) ==
    <<call.pixel[2] * call.scale[2] - (call.offset[3] + call.offset[1]),
      call.pixel[1] * call.scale[1] - (call.offset[3] + call.offset[2])>>

(* z_0 .. z_1023, cut after the first point that escapes. *)
OrbitOfCall == Orbit(<<StartPoint(et_call)>>, 1023, et_call.c, et_call.power)

(* C9: escape_time tests the escape condition at most 1024 times, on        *)
(* z_0 .. z_1023 and before the map is applied; it returns the smoothed    *)
(* value of the first z_i, i in 0..1023, that escapes, and None exactly    *)
(* when none of them escapes; render takes None as the intensity 0.0.      *)
C9_EscapeWithinCap ==
    et_call.returned =>
        \E zs \in {OrbitOfCall} :
            LET i == Len(zs) - 1
                z == zs[Len(zs)]
            IN  /\ et_call.tests <= 1024
                /\ Escaped(z) =>
                      /\ i \in 0..1023
                      /\ et_call.tests = i + 1
                      /\ et_call.ret =
                            [some |-> TRUE,
                             val |-> [fn |-> "smooth", i |-> i,
                                      n |-> z[1] * z[1] + z[2] * z[2]]]
                      /\ et_call.intensity = et_call.ret.val
                /\ ~Escaped(z) =>
                      /\ i = 1023
                      /\ et_call.tests = 1024
                      /\ et_call.ret = [some |-> FALSE]
                      /\ et_call.intensity = Zero

C9_Witness ==
    /\ et_call.returned
    /\ ~et_call.ret.some
    /\ et_call.tests = 1024
    /\ et_call.intensity = Zero

====
